---- MODULE Spec2Model ----
(***************************************************************************)
(* Model of the instrumented chatbots of the llm-observability demos.      *)
(*                                                                         *)
(* Five programs share one pattern (a turn = user message -> model backend *)
(* -> assistant message, wrapped in spans and metrics):                    *)
(*   "langfuse"  demo/langfuse/chatbot-langfuse.py     ObservableChatbot   *)
(*   "opik"      demo/opik/chatbot-opik.py             OpikObservable...   *)
(*   "openai"    demo/openllmetry/chatbot-openllmetry-openai.py  (agent)   *)
(*   "langtrace" demo/langtrace/chatbot-langtrace.py   chat / chat_stream  *)
(*   "ollama"    demo/openllmetry/chatbot-openllmetry-ollama.py            *)
(* `variant` says which program runs.  A handler is split only where the   *)
(* code suspends: at the backend call, and at each yield of a generator.   *)
(*                                                                         *)
(* Python values: a text is a sequence of fragments; a value that may be   *)
(* None is a record [t |-> "str", v |-> text] or [t |-> "None", v |-> <<>>]*)
(* Exceptions are records [type, msg].  Statement sequences are written in *)
(* exception-passing style: a local state `s` carries the pending          *)
(* exception in s.exc, every statement is a no-op while one is pending,    *)
(* and an except clause takes it.                                          *)
(*                                                                         *)
(* Spans: `with tracer.start_as_current_span(..)` ends the span on every   *)
(* exit; when an exception leaves the block it first records the exception *)
(* and sets status ERROR (OpenTelemetry defaults record_exception=True,    *)
(* set_status_on_exception=True).  No handler of the repository calls      *)
(* span.set_status, so a span that ends normally keeps status "unset".     *)
(* Spans created by decorators (@observe, @track, @workflow) live inside   *)
(* the vendor SDKs and are not modelled.                                   *)
(***************************************************************************)
EXTENDS Integers, Sequences, FiniteSets, TLC

VARIABLES
    variant,               \* which demo program runs
    pc,                    \* "prompt" | "awaiting" | "streaming" | "exited"
    conversation_history,  \* list of [role, content]
    use_streaming,         \* main(): streaming mode toggle
    metrics,               \* samples recorded so far: [name, value, label]
    spans,                 \* spans started so far
    turn,                  \* the turn in flight (and the last one, once over)
    outcome,               \* what the last turn delivered to its caller
    turns,                 \* number of turns started
    chunks,                \* number of chunks the backend has streamed
    flushed                \* the program has called the flush of its exporter

vars == <<variant, pc, conversation_history, use_streaming, metrics, spans,
          turn, outcome, turns, chunks, flushed>>

----------------------------------------------------------------------------
(* Bounds of the model *)

MaxTurns == 2
MaxChunks == 2

----------------------------------------------------------------------------
(* Values *)

Variants == {"langfuse", "opik", "openai", "langtrace", "ollama"}
HasMetrics == {"langfuse", "opik", "openai"}
HasHistory == {"langfuse", "opik", "langtrace", "ollama"}
Interactive == {"langfuse", "opik", "langtrace", "ollama"}
CanStream == {"langtrace", "ollama"}

Str(text) == [t |-> "str", v |-> text]
NoneValue == [t |-> "None", v |-> <<>>]
Absent == -1

UserInputs == {<<"hi">>, <<"hi", "!">>}
Fragments == {"a", "b"}

NoExc == [type |-> "", msg |-> <<>>]
ConnectionError == [type |-> "ConnectionError", msg |-> <<"refused">>]
ResponseError == [type |-> "ResponseError", msg |-> <<"overloaded">>]
KeyError == [type |-> "KeyError", msg |-> <<"'message'">>]
TypeError == [type |-> "TypeError", msg |-> <<"NoneType">>]
TelemetryError == [type |-> "TelemetryError", msg |-> <<"recording">>]
GeneratorExit == [type |-> "GeneratorExit", msg |-> <<>>]
KeyboardInterrupt == [type |-> "KeyboardInterrupt", msg |-> <<>>]
BackendErrors == {ConnectionError, ResponseError}

(* What the backend hands back to a non-streamed call.  shape "ok": a      *)
(* message with text content; "content_none": a message whose content is   *)
(* None; "no_message": a malformed body with no message.  A token count    *)
(* the backend does not report is Absent.                                  *)
Response(shape, content, p, c) ==
    [shape |-> shape, content |-> content, prompt_eval_count |-> p, eval_count |-> c]
Responses ==
    { Response("ok", Str(<<"hello">>), 3, 1),
      Response("ok", Str(<<>>), Absent, Absent),
      Response("content_none", NoneValue, 3, 1),
      Response("no_message", NoneValue, 3, 1) }

(* Telemetry statements that run after the backend has returned; at most   *)
(* one of them raises in a turn ("none": telemetry works).                 *)
FaultPoints == {"none", "api_attrs", "latency", "span_attrs"}

----------------------------------------------------------------------------
(* Local execution state of a handler and the statements handlers are made *)
(* of.  s.h history, s.m metric samples, s.sp spans, s.exc the exception   *)
(* in flight (NoExc: none), s.ret the value returned, s.recordsBase the    *)
(* release of the tracing library (see WithExit); s.caught: an except      *)
(* clause has taken an exception, s.failure; s.faulted: a telemetry        *)
(* statement raised.                                                       *)

NoResult == [content |-> NoneValue, total_tokens |-> 0, prompt_tokens |-> 0,
             completion_tokens |-> 0]

Local(h, m, sp, recordsBase) ==
    [h |-> h, m |-> m, sp |-> sp, exc |-> NoExc, ret |-> NoResult,
     recordsBase |-> recordsBase, caught |-> FALSE, faulted |-> FALSE,
     failure |-> NoExc]

Running(s) == s.exc = NoExc

(* F applied to the value of v, v being evaluated once *)
Eval(v, F(_)) == CHOOSE y \in {F(x) : x \in {v}} : TRUE

(* a statement: F acts on the state unless an exception is in flight *)
Step(s, F(_)) == Eval(s, LAMBDA x : IF Running(x) THEN F(x) ELSE x)

Raise(s, e) == Step(s, LAMBDA x : [x EXCEPT !.exc = e])

IsBaseException(e) == e.type \in {"GeneratorExit", "KeyboardInterrupt"}

(* `except Exception` takes what is in flight unless it is a GeneratorExit *)
(* or a KeyboardInterrupt                                                  *)
Catches(s) == ~Running(s) /\ ~IsBaseException(s.exc)

(* except Exception as e: the handler takes the exception in flight *)
Caught(s) == [s EXCEPT !.exc = NoExc, !.caught = TRUE, !.failure = s.exc]

Return(s, value) == Step(s, LAMBDA x : [x EXCEPT !.ret = value])

(* mutant: no default for a missing key *)
GetOrZero_no_default(x) == x

(* dict.get(key, 0) *)
GetOrZero(x) == IF x = Absent THEN 0 ELSE x

(* len(x): a TypeError when x is None *)
LenOf(s, v) == IF v.t = "str" THEN s ELSE Raise(s, TypeError)

NewSpan(name) ==
    [name |-> name, attrs |-> <<>>, status |-> "unset", exceptions |-> <<>>,
     ended |-> 0, late |-> 0]

(* tracer.start_as_current_span(name).__enter__: the new span is the last *)
StartSpan(s, name) == Step(s, LAMBDA x : [x EXCEPT !.sp = Append(@, NewSpan(name))])

(* span.set_attribute: ignored (and counted in `late`) on an ended span *)
SetAttrOn(span, k, v) ==
    IF span.ended > 0 THEN [span EXCEPT !.late = @ + 1]
    ELSE [span EXCEPT !.attrs = (k :> v) @@ @]

SetAttr(s, i, k, v) == Step(s, LAMBDA x : [x EXCEPT !.sp[i] = SetAttrOn(@, k, v)])

(* a telemetry statement raises *)
TelemetryFault(s) == [s EXCEPT !.exc = TelemetryError, !.faulted = TRUE]

SetAttrsOn(span, kvs) ==
    IF span.ended > 0 THEN [span EXCEPT !.late = @ + 1]
    ELSE [span EXCEPT !.attrs = kvs @@ @]

(* a group of set_attribute calls, the first of which raises when the      *)
(* telemetry fault of the turn is at `point`                               *)
SetAttrs(s, i, kvs, point, fault) ==
    Step(s, LAMBDA x : IF fault = point THEN TelemetryFault(x)
                       ELSE [x EXCEPT !.sp[i] = SetAttrsOn(@, kvs)])

RecordExceptionOn(span, e) ==
    IF span.ended > 0 THEN [span EXCEPT !.late = @ + 1]
    ELSE [span EXCEPT !.exceptions = Append(@, e)]

(* span.record_exception(e), called from inside an except clause *)
RecordException(s, i, e) ==
    Step(s, LAMBDA x : [x EXCEPT !.sp[i] = RecordExceptionOn(@, e)])

(* mutant: a span whose block is left by an exception is not ended *)
WithExitOn_leak(span, e, recordsBase) ==
    IF e # NoExc THEN span ELSE [span EXCEPT !.ended = @ + 1]

(* __exit__ of `with tracer.start_as_current_span(..)`: an exception that  *)
(* leaves the block is recorded and sets status "error", then the span is  *)
(* ended; the exception stays in flight.  Whether an exception that is not *)
(* an Exception (GeneratorExit, KeyboardInterrupt) is recorded too differs *)
(* between releases of the tracing library: recordsBase.                   *)
WithExitOn(span, e, recordsBase) ==
    LET marked == IF e # NoExc /\ (recordsBase \/ ~IsBaseException(e)) /\ span.ended = 0
                  THEN [span EXCEPT !.exceptions = Append(@, e), !.status = "error"]
                  ELSE span
    IN  [marked EXCEPT !.ended = @ + 1]

WithExit(s, i) ==
    Eval(s, LAMBDA x : [x EXCEPT !.sp[i] = WithExitOn(@, x.exc, x.recordsBase)])

Sample(name, value, label) == [name |-> name, value |-> value, label |-> label]

(* counter.add(value, {.., label}) / histogram.record(value, {..}) *)
Record(s, name, value, label, point, fault) ==
    Step(s, LAMBDA x : IF fault = point THEN TelemetryFault(x)
                       ELSE [x EXCEPT !.m = Append(@, Sample(name, value, label))])

Message(role, content) == [role |-> role, content |-> content]

(* mutant: the message is put in front of the history *)
AppendMessage_front(s, role, content) ==
    Step(s, LAMBDA x : [x EXCEPT !.h = <<Message(role, content)>> \o @])

(* conversation_history.append({"role": .., "content": ..}) *)
AppendMessage(s, role, content) ==
    Step(s, LAMBDA x : [x EXCEPT !.h = Append(@, Message(role, content))])

(* response["message"]["content"]: a KeyError on a body without a message *)
MessageContent(s, r) == IF r.shape = "no_message" THEN Raise(s, KeyError) ELSE s

(* f"Error: {str(e)}" *)
ErrorText(e) == Str(<<"Error: ">> \o e.msg)

(* (time.time() - start_time) * 1000: the wall-clock time of a turn *)
Elapsed == 7

Model == "llama3.1:8b"
SessionId == "session_1"

Result(content, total, p, c) ==
    [content |-> content, total_tokens |-> total, prompt_tokens |-> p,
     completion_tokens |-> c]

----------------------------------------------------------------------------
(* demo/langfuse/chatbot-langfuse.py: ObservableChatbot *)

(* chat, up to the backend request inside _call_ollama *)
langfuse_chat_begin(s, user_message) ==
    LET a == StartSpan(s, "llm_chat_request")
        span == Len(a.sp)
        b == SetAttr(a, span, "llm.model", Model)
        c == SetAttr(b, span, "llm.user_message_length", Len(user_message))
        d == SetAttr(c, span, "session.id", SessionId)
        e == AppendMessage(d, "user", Str(user_message))
    IN  StartSpan(e, "ollama_api")

(* _call_ollama, from the reply of the backend (r, or the exception be) *)
langfuse_call_ollama(s, api, r, be, fault) ==
    LET prompt_tokens == GetOrZero(r.prompt_eval_count)
        completion_tokens == GetOrZero(r.eval_count)
        total_tokens == prompt_tokens + completion_tokens
        a == IF be # NoExc THEN Raise(s, be) ELSE s
        b == SetAttrs(a, api,
                      ("llm.prompt_tokens" :> prompt_tokens)
                      @@ ("llm.completion_tokens" :> completion_tokens)
                      @@ ("llm.total_tokens" :> total_tokens),
                      "api_attrs", fault)
        c == Record(b, "llm.tokens.total", prompt_tokens, "prompt", "tok_prompt", fault)
        d == Record(c, "llm.tokens.total", completion_tokens, "completion",
                    "tok_completion", fault)
        e == MessageContent(d, r)
        f == Return(e, Result(r.content, total_tokens, prompt_tokens, completion_tokens))
        g == Eval(f, LAMBDA x : IF ~Catches(x) THEN x
                    ELSE Raise(RecordException(Caught(x), api, x.exc), x.exc))
    IN  WithExit(g, api)

(* except Exception as e: of chat *)
langfuse_chat_except(s, span) ==
    LET e == s.exc
        a == Record(Caught(s), "llm.errors.total", 1, e.type, "err_counter", "none")
        b == Record(a, "llm.requests.total", 1, "error", "req_error", "none")
        c == SetAttrs(b, span,
                      ("llm.status" :> "error") @@ ("error.type" :> e.type)
                      @@ ("error.message" :> e.msg),
                      "err_attrs", "none")
        d == RecordException(c, span, e)
    IN  Raise(d, e)

(* mutant: the latency is recorded twice *)
langfuse_update_metrics_twice(s, total_tokens, fault) ==
    LET a == Record(s, "llm.requests.total", 1, "success", "req_success", fault)
        b == Record(a, "llm.tokens.total", total_tokens, "total", "tok_total", fault)
        c == Record(b, "llm.request.duration", Elapsed, "", "latency", fault)
    IN  Record(c, "llm.request.duration", Elapsed, "", "latency", fault)

(* chat: "Update OpenTelemetry metrics" of the success path *)
langfuse_update_metrics(s, total_tokens, fault) ==
    LET a == Record(s, "llm.requests.total", 1, "success", "req_success", fault)
        b == Record(a, "llm.tokens.total", total_tokens, "total", "tok_total", fault)
    IN  Record(b, "llm.request.duration", Elapsed, "", "latency", fault)

(* chat, from the reply of the backend to its return or raise *)
langfuse_chat_end(s, span, api, r, be, fault) ==
    LET a == langfuse_call_ollama(s, api, r, be, fault)
        response == a.ret
        b == AppendMessage(a, "assistant", response.content)
        total_tokens == response.total_tokens
        e == langfuse_update_metrics(b, total_tokens, fault)
        f == LenOf(e, response.content)
        g == SetAttrs(f, span,
                      ("llm.response_length" :> Len(response.content.v))
                      @@ ("llm.total_tokens" :> total_tokens)
                      @@ ("llm.duration_ms" :> Elapsed)
                      @@ ("llm.status" :> "success"),
                      "span_attrs", fault)
        h == Return(g, response)
        i == Eval(h, LAMBDA x : IF ~Catches(x) THEN x ELSE langfuse_chat_except(x, span))
    IN  WithExit(i, span)

----------------------------------------------------------------------------
(* demo/opik/chatbot-opik.py: OpikObservableChatbot *)

(* run_demo: `with tracer.start_as_current_span("chatbot_session")` *)
opik_session_begin(s) ==
    LET a == StartSpan(s, "chatbot_session")
    IN  SetAttr(a, Len(a.sp), "session.id", SessionId)

(* run_demo: the end of the session block, reached by break or by an       *)
(* exception that leaves the loop                                          *)
opik_session_end(s, session) ==
    LET a == SetAttr(s, session, "session.total_messages", Len(s.h))
    IN  WithExit(a, session)

opik_chat_begin(s, user_message) ==
    LET a == StartSpan(s, "llm_chat_request")
        span == Len(a.sp)
        b == SetAttr(a, span, "llm.model", Model)
        c == SetAttr(b, span, "llm.user_message_length", Len(user_message))
        d == SetAttr(c, span, "session.id", SessionId)
        e == AppendMessage(d, "user", Str(user_message))
    IN  StartSpan(e, "ollama_api")

opik_call_ollama(s, api, r, be, fault) ==
    LET prompt_tokens == GetOrZero(r.prompt_eval_count)
        completion_tokens == GetOrZero(r.eval_count)
        total_tokens == prompt_tokens + completion_tokens
        a == IF be # NoExc THEN Raise(s, be) ELSE s
        b == SetAttrs(a, api,
                      ("llm.prompt_tokens" :> prompt_tokens)
                      @@ ("llm.completion_tokens" :> completion_tokens)
                      @@ ("llm.total_tokens" :> total_tokens),
                      "api_attrs", fault)
        c == MessageContent(b, r)
        d == Return(c, Result(r.content, total_tokens, prompt_tokens, completion_tokens))
        e == Eval(d, LAMBDA x : IF ~Catches(x) THEN x
                    ELSE Raise(RecordException(Caught(x), api, x.exc), x.exc))
    IN  WithExit(e, api)

opik_chat_except(s, span) ==
    LET e == s.exc
        a == Record(Caught(s), "llm.errors.total", 1, e.type, "err_counter", "none")
        b == Record(a, "llm.requests.total", 1, "error", "req_error", "none")
        c == SetAttrs(b, span,
                      ("llm.status" :> "error") @@ ("error.type" :> e.type)
                      @@ ("error.message" :> e.msg),
                      "err_attrs", "none")
        d == RecordException(c, span, e)
    IN  Raise(d, e)

(* opik_context.update_current_span(metadata=.., usage=..) *)
SdkReport(s, fault) ==
    Step(s, LAMBDA x : IF fault = "sdk_report" THEN TelemetryFault(x) ELSE x)

(* mutant: a successful request is counted, its latency is not observed *)
opik_update_metrics_unobserved(s, total_tokens, prompt_tokens, completion_tokens, fault) ==
    LET a == Record(s, "llm.requests.total", 1, "success", "req_success", fault)
        b == Record(a, "llm.tokens.total", total_tokens, "total", "tok_total", fault)
        c == Record(b, "llm.tokens.total", prompt_tokens, "prompt", "tok_prompt", fault)
    IN  Record(c, "llm.tokens.total", completion_tokens, "completion",
               "tok_completion", fault)

opik_update_metrics(s, total_tokens, prompt_tokens, completion_tokens, fault) ==
    LET a == Record(s, "llm.requests.total", 1, "success", "req_success", fault)
        b == Record(a, "llm.tokens.total", total_tokens, "total", "tok_total", fault)
        c == Record(b, "llm.tokens.total", prompt_tokens, "prompt", "tok_prompt", fault)
        d == Record(c, "llm.tokens.total", completion_tokens, "completion",
                    "tok_completion", fault)
    IN  Record(d, "llm.request.duration", Elapsed, "", "latency", fault)

opik_chat_end(s, span, api, r, be, fault) ==
    LET a == opik_call_ollama(s, api, r, be, fault)
        response == a.ret
        b == AppendMessage(a, "assistant", response.content)
        total_tokens == response.total_tokens
        prompt_tokens == response.prompt_tokens
        completion_tokens == response.completion_tokens
        g == opik_update_metrics(b, total_tokens, prompt_tokens, completion_tokens, fault)
        h == LenOf(g, response.content)
        i == SetAttrs(h, span,
                      ("llm.response_length" :> Len(response.content.v))
                      @@ ("llm.total_tokens" :> total_tokens)
                      @@ ("llm.prompt_tokens" :> prompt_tokens)
                      @@ ("llm.completion_tokens" :> completion_tokens)
                      @@ ("llm.duration_ms" :> Elapsed)
                      @@ ("llm.status" :> "success"),
                      "span_attrs", fault)
        j == SdkReport(i, fault)
        k == Return(j, response)
        l == Eval(k, LAMBDA x : IF ~Catches(x) THEN x ELSE opik_chat_except(x, span))
    IN  WithExit(l, span)

----------------------------------------------------------------------------
(* demo/openllmetry/chatbot-openllmetry-openai.py: LLMObservabilityAgent  *)
(* The agent keeps no history: every request is [system, user prompt].    *)
(* track_llm_call is taken as a span block named after vendor and type.   *)
(* A body without choices stands for shape "no_message"; response.usage   *)
(* is None when the backend reports no prompt count.                      *)

HasUsage(r) == r.prompt_eval_count # Absent

openai_chat_begin(s, prompt) ==
    StartSpan(s, "ollama.chat")

(* "tokens": response.usage.total_tokens if hasattr(response, 'usage')    *)
(* else 0: the attribute exists on every response, so a missing usage is  *)
(* an AttributeError on None                                               *)
AttributeError == [type |-> "AttributeError", msg |-> <<"total_tokens">>]
UsageTotal(s, r) == IF HasUsage(r) THEN s ELSE Raise(s, AttributeError)

openai_chat_except(s, span) ==
    LET e == s.exc
        a == SetAttrs(Caught(s), span,
                      ("error" :> TRUE) @@ ("error.message" :> e.msg),
                      "err_attrs", "none")
        b == Record(a, "llm_requests_total", 1, "error", "req_error", "none")
    IN  Return(b, NoResult)

(* "Record metrics" of the success path *)
openai_record_metrics(s, r, total_tokens, fault) ==
    LET a == Record(s, "llm_requests_total", 1, "success", "req_success", fault)
        b == Record(a, "llm_request_duration", Elapsed, "", "latency", fault)
    IN  IF HasUsage(r)
        THEN SdkReport(Record(b, "llm_tokens_total", total_tokens, "total",
                              "tok_total", fault), fault)
        ELSE b

openai_chat_end(s, span, r, be, fault) ==
    LET total_tokens == GetOrZero(r.prompt_eval_count) + GetOrZero(r.eval_count)
        a == IF be # NoExc THEN Raise(s, be) ELSE s
        b == MessageContent(a, r)
        content == r.content
        e == openai_record_metrics(b, r, total_tokens, fault)
        f == LenOf(e, content)
        g == SetAttrs(f, span,
                      ("llm.response" :> content.v) @@ ("llm.duration_ms" :> Elapsed)
                      @@ ("llm.finish_reason" :> "stop"),
                      "span_attrs", fault)
        h == UsageTotal(g, r)
        i == Return(h, Result(content, total_tokens, 0, 0))
        j == Eval(i, LAMBDA x : IF ~Catches(x) THEN x ELSE openai_chat_except(x, span))
    IN  WithExit(j, span)

----------------------------------------------------------------------------
(* demo/langtrace/chatbot-langtrace.py: chat (no span, no metric of its   *)
(* own: the SDK instruments the backend client)                            *)

langtrace_chat_begin(s, message) == AppendMessage(s, "user", Str(message))

(* mutant: the handler of a failed call takes the user message back *)
langtrace_chat_end_rollback(s, r, be) ==
    LET a == IF be # NoExc THEN Raise(s, be) ELSE s
        b == MessageContent(a, r)
        assistant_message == r.content
        c == AppendMessage(b, "assistant", assistant_message)
        d == Return(c, Result(assistant_message, 0, 0, 0))
    IN  Eval(d, LAMBDA x : IF ~Catches(x) THEN x
                        ELSE Return([Caught(x) EXCEPT !.h = SubSeq(x.h, 1, Len(x.h) - 1)],
                                    Result(ErrorText(x.exc), 0, 0, 0)))

langtrace_chat_end(s, r, be) ==
    LET a == IF be # NoExc THEN Raise(s, be) ELSE s
        b == MessageContent(a, r)
        assistant_message == r.content
        c == AppendMessage(b, "assistant", assistant_message)
        d == Return(c, Result(assistant_message, 0, 0, 0))
    IN  Eval(d, LAMBDA x : IF ~Catches(x) THEN x
                        ELSE Return(Caught(x), Result(ErrorText(x.exc), 0, 0, 0)))

----------------------------------------------------------------------------
(* demo/openllmetry/chatbot-openllmetry-ollama.py: chat *)

ollama_chat_begin(s, message) ==
    StartSpan(AppendMessage(s, "user", Str(message)), "openai.chat")

ollama_chat_end(s, span, r, be) ==
    LET a == IF be # NoExc THEN Raise(s, be) ELSE s
        b == MessageContent(a, r)
        assistant_message == r.content
        c == AppendMessage(b, "assistant", assistant_message)
        d == Return(c, Result(assistant_message, 0, 0, 0))
        e == WithExit(d, span)
    IN  Eval(e, LAMBDA x : IF ~Catches(x) THEN x
                        ELSE Return(Caught(x), Result(ErrorText(x.exc), 0, 0, 0)))

(* mutant: clear leaves the history as it is *)
clear_history_keep(h) == h

(* clear_history / `conversation_history = []` *)
clear_history(h) == <<>>

----------------------------------------------------------------------------
(* chat_stream of the langtrace and the openllmetry-ollama demo: a         *)
(* generator.  It runs from the first pull of the consumer to the backend  *)
(* read of `for chunk in stream`, and then from one suspension (backend    *)
(* read, yield) to the next.                                               *)

langtrace_stream_begin(s, message) == AppendMessage(s, "user", Str(message))

ollama_stream_begin(s, message) ==
    LET a == AppendMessage(s, "user", Str(message))
        b == StartSpan(a, "ollama.chat.stream")
        span == Len(b.sp)
        c == SetAttr(b, span, "llm.model", Model)
    IN  SetAttr(c, span, "llm.streaming", TRUE)

(* mutant: the assistant message is appended twice *)
langtrace_stream_end_twice(s, full_response) ==
    AppendMessage(AppendMessage(s, "assistant", Str(full_response)),
                  "assistant", Str(full_response))

(* mutant: the response length is set after the with block was left *)
ollama_stream_end_late(s, span, full_response) ==
    LET a == AppendMessage(s, "assistant", Str(full_response))
        b == WithExit(a, span)
    IN  SetAttr(b, span, "llm.response_length", Len(full_response))

(* end of stream: the statements after the for loop *)
langtrace_stream_end(s, full_response) ==
    AppendMessage(s, "assistant", Str(full_response))

ollama_stream_end(s, span, full_response) ==
    LET a == SetAttr(s, span, "llm.response_length", Len(full_response))
        b == AppendMessage(a, "assistant", Str(full_response))
    IN  WithExit(b, span)

(* an exception e inside the try block (raised by the backend read, or     *)
(* thrown in at the yield when the generator is closed): when the result   *)
(* is Running the except clause took it and yields ErrorText(e)            *)
(* mutant: the except clause commits the error text as the assistant turn *)
langtrace_stream_fail_commit(s, e) ==
    Eval(Raise(s, e), LAMBDA x : IF Catches(x)
                                 THEN AppendMessage(Caught(x), "assistant", ErrorText(e))
                                 ELSE x)

langtrace_stream_fail(s, e) ==
    Eval(Raise(s, e), LAMBDA x : IF Catches(x) THEN Caught(x) ELSE x)

(* mutant: only an exception the except clause takes leaves the with block *)
ollama_stream_fail_open(s, span, e) ==
    Eval(Raise(s, e), LAMBDA x : IF Catches(x) THEN Caught(WithExit(x, span)) ELSE x)

ollama_stream_fail(s, span, e) ==
    Eval(WithExit(Raise(s, e), span), LAMBDA x : IF Catches(x) THEN Caught(x) ELSE x)

----------------------------------------------------------------------------
(* The programs: main() / run_demo() *)

NoReply == [kind |-> "none", r |-> Response("ok", NoneValue, Absent, Absent), be |-> NoExc]

NoTurn ==
    [mode |-> "none", phase |-> "none", msg |-> <<>>, h0 |-> <<>>, m0 |-> 0, s0 |-> 0,
     span |-> 0, api |-> 0, request |-> <<>>, reply |-> NoReply, fault |-> "none",
     full_response |-> <<>>, yielded |-> <<>>, received |-> 0]

NoOutcome ==
    [kind |-> "none", value |-> NoResult, exc |-> NoExc, caught |-> FALSE,
     faulted |-> FALSE, failure |-> NoExc]

Here(recordsBase) == Local(conversation_history, metrics, spans, recordsBase)

Commit(s) ==
    /\ conversation_history' = s.h
    /\ metrics' = s.m
    /\ spans' = s.sp

SystemMessage == Message("system", Str(<<"You are a helpful assistant.">>))

chat_begin(s, msg) ==
    CASE variant = "langfuse" -> langfuse_chat_begin(s, msg)
      [] variant = "opik" -> opik_chat_begin(s, msg)
      [] variant = "openai" -> openai_chat_begin(s, msg)
      [] variant = "langtrace" -> langtrace_chat_begin(s, msg)
      [] variant = "ollama" -> ollama_chat_begin(s, msg)

chat_end(s, r, be, fault) ==
    CASE variant = "langfuse" -> langfuse_chat_end(s, turn.span, turn.api, r, be, fault)
      [] variant = "opik" -> opik_chat_end(s, turn.span, turn.api, r, be, fault)
      [] variant = "openai" -> openai_chat_end(s, turn.span, r, be, fault)
      [] variant = "langtrace" -> langtrace_chat_end(s, r, be)
      [] variant = "ollama" -> ollama_chat_end(s, turn.span, r, be)

(* index of the span of the call, and of the span of _call_ollama *)
CallSpan(s) ==
    CASE variant \in {"langfuse", "opik"} -> Len(s.sp) - 1
      [] variant \in {"openai", "ollama"} -> Len(s.sp)
      [] OTHER -> 0
ApiSpan(s) == IF variant \in {"langfuse", "opik"} THEN Len(s.sp) ELSE 0

(* mutant: the request is built from the history as it was before the call *)
Request_stale(s, msg) ==
    IF variant = "openai" THEN <<SystemMessage, Message("user", Str(msg))>>
    ELSE conversation_history

(* messages=... of the backend request *)
Request(s, msg) ==
    IF variant = "openai" THEN <<SystemMessage, Message("user", Str(msg))>> ELSE s.h

Init ==
    /\ variant \in Variants
    /\ pc = "prompt"
    /\ conversation_history = <<>>
    /\ use_streaming = FALSE
    /\ metrics = <<>>
    /\ spans = IF variant = "opik" THEN opik_session_begin(Local(<<>>, <<>>, <<>>, FALSE)).sp
               ELSE <<>>
    /\ turn = NoTurn
    /\ outcome = NoOutcome
    /\ turns = 0
    /\ chunks = 0
    /\ flushed = FALSE

Streaming == variant \in CanStream /\ use_streaming

(* input() still delivers lines: once it has raised EOFError at the end of *)
(* the input, every later call raises it again                             *)
InputOpen == outcome.kind # "eof"

(* mutant: a turn is started while the backend still works on another *)
BeginTurn_reentrant(msg) ==
    /\ pc \in {"prompt", "awaiting"}
    /\ InputOpen
    /\ turns < MaxTurns
    /\ ~Streaming
    /\ \E s \in {chat_begin(Here(FALSE), msg)} :
           /\ Commit(s)
           /\ turn' = [NoTurn EXCEPT !.mode = "chat", !.phase = "await", !.msg = msg,
                                     !.h0 = conversation_history, !.m0 = Len(metrics),
                                     !.s0 = Len(spans), !.span = CallSpan(s),
                                     !.api = ApiSpan(s), !.request = Request(s, msg)]
    /\ pc' = "awaiting"
    /\ turns' = turns + 1
    /\ outcome' = NoOutcome
    /\ UNCHANGED <<variant, flushed, use_streaming, chunks>>

(* a message is typed (or the next query of run_demo is taken): the turn   *)
(* runs to the backend request                                             *)
BeginTurn(msg) ==
    /\ pc = "prompt"
    /\ InputOpen
    /\ turns < MaxTurns
    /\ ~Streaming
    /\ \E s \in {chat_begin(Here(FALSE), msg)} :
           /\ Commit(s)
           /\ turn' = [NoTurn EXCEPT !.mode = "chat", !.phase = "await", !.msg = msg,
                                     !.h0 = conversation_history, !.m0 = Len(metrics),
                                     !.s0 = Len(spans), !.span = CallSpan(s),
                                     !.api = ApiSpan(s), !.request = Request(s, msg)]
    /\ pc' = "awaiting"
    /\ turns' = turns + 1
    /\ outcome' = NoOutcome
    /\ UNCHANGED <<variant, flushed, use_streaming, chunks>>

(* what the caller of chat gets: a value or an exception *)
Delivered(s) ==
    [kind |-> IF Running(s) THEN "return" ELSE "raise",
     value |-> IF Running(s) THEN s.ret ELSE NoResult,
     exc |-> s.exc, caught |-> s.caught, faulted |-> s.faulted,
     failure |-> s.failure]

Telemetry == IF variant \in HasMetrics THEN FaultPoints ELSE {"none"}

(* the backend answers the request; the turn runs to its end.  In the      *)
(* langfuse and opik loop an exception of chat is printed by               *)
(* `except Exception` and the loop goes on.                                *)
BackendReturns(r, fault) ==
    /\ pc = "awaiting"
    /\ \E s \in {chat_end(Here(FALSE), r, NoExc, fault)} :
           /\ Commit(s)
           /\ outcome' = Delivered(s)
    /\ turn' = [turn EXCEPT !.phase = "over", !.fault = fault,
                            !.reply = [kind |-> "returned", r |-> r, be |-> NoExc]]
    /\ pc' = "prompt"
    /\ UNCHANGED <<variant, flushed, use_streaming, turns, chunks>>

(* mutant: an exception of the backend call ends the program *)
BackendRaises_fatal(be) ==
    /\ pc = "awaiting"
    /\ \E s \in {chat_end(Here(FALSE), NoReply.r, be, "none")} :
           /\ Commit(s)
           /\ outcome' = Delivered(s)
    /\ turn' = [turn EXCEPT !.phase = "over",
                            !.reply = [kind |-> "raised", r |-> NoReply.r, be |-> be]]
    /\ pc' = "exited"
    /\ UNCHANGED <<variant, flushed, use_streaming, turns, chunks>>

(* the backend call raises *)
BackendRaises(be) ==
    /\ pc = "awaiting"
    /\ \E s \in {chat_end(Here(FALSE), NoReply.r, be, "none")} :
           /\ Commit(s)
           /\ outcome' = Delivered(s)
    /\ turn' = [turn EXCEPT !.phase = "over",
                            !.reply = [kind |-> "raised", r |-> NoReply.r, be |-> be]]
    /\ pc' = "prompt"
    /\ UNCHANGED <<variant, flushed, use_streaming, turns, chunks>>

(* the flush the program's own code calls on its way out: the finally     *)
(* clause of main (ollama) and the statement after the loop of run_demo    *)
(* (opik); the other programs call none                                    *)
ExitFlush == variant \in {"ollama", "opik"}

(* the end of the program: opik closes the session span *)
Leave(s) ==
    IF variant = "opik" THEN opik_session_end(s, 1) ELSE s

(* Ctrl-C while the backend call blocks: the KeyboardInterrupt passes      *)
(* every `except Exception`; langfuse and opik leave the loop by break,    *)
(* the other programs die of it                                            *)
InterruptCall(recordsBase) ==
    /\ pc = "awaiting"
    /\ \E s \in {chat_end(Here(recordsBase), NoReply.r, KeyboardInterrupt, "none")} :
           /\ \E x \in {Leave(IF variant \in {"langfuse", "opik"} THEN Caught(s) ELSE s)} :
                  Commit(x)
           /\ outcome' = [NoOutcome EXCEPT !.kind = "interrupted", !.exc = s.exc]
    /\ turn' = [turn EXCEPT !.phase = "over"]
    /\ pc' = "exited"
    /\ flushed' = ExitFlush
    /\ UNCHANGED <<variant, use_streaming, turns, chunks>>

stream_begin(s, msg) ==
    IF variant = "langtrace" THEN langtrace_stream_begin(s, msg)
    ELSE ollama_stream_begin(s, msg)

stream_end(s) ==
    IF variant = "langtrace" THEN langtrace_stream_end(s, turn.full_response)
    ELSE ollama_stream_end(s, turn.span, turn.full_response)

stream_fail(s, e) ==
    IF variant = "langtrace" THEN langtrace_stream_fail(s, e)
    ELSE ollama_stream_fail(s, turn.span, e)

(* mutant: chat_stream does its first statements when it is called *)
CreateStream_eager(msg) ==
    /\ pc = "prompt"
    /\ InputOpen
    /\ turns < MaxTurns
    /\ Streaming
    /\ \E s \in {stream_begin(Here(FALSE), msg)} : Commit(s)
    /\ turn' = [NoTurn EXCEPT !.msg = msg, !.h0 = conversation_history,
                              !.m0 = Len(metrics), !.s0 = Len(spans)]
    /\ pc' = "created"
    /\ turns' = turns + 1
    /\ outcome' = NoOutcome
    /\ UNCHANGED <<variant, flushed, use_streaming, chunks>>

(* streaming mode: chat_stream(user_input, conversation_history) is        *)
(* called.  The function holds a yield, so the call makes a generator      *)
(* object and runs no statement of the body.                               *)
CreateStream(msg) ==
    /\ pc = "prompt"
    /\ InputOpen
    /\ turns < MaxTurns
    /\ Streaming
    /\ turn' = [NoTurn EXCEPT !.msg = msg, !.h0 = conversation_history,
                              !.m0 = Len(metrics), !.s0 = Len(spans)]
    /\ pc' = "created"
    /\ turns' = turns + 1
    /\ outcome' = NoOutcome
    /\ UNCHANGED <<variant, flushed, conversation_history, use_streaming, metrics, spans, chunks>>

(* Ctrl-C after the call and before the for statement pulls: the           *)
(* generator that never started is dropped, no statement of its body runs; *)
(* the program ends                                                        *)
InterruptCreated ==
    /\ pc = "created"
    /\ pc' = "exited"
    /\ outcome' = [NoOutcome EXCEPT !.kind = "interrupted", !.exc = KeyboardInterrupt]
    /\ flushed' = ExitFlush
    /\ UNCHANGED <<variant, conversation_history, use_streaming, metrics, spans, turn, turns, chunks>>

(* `for chunk in chat_stream(..)` pulls the first element: the generator   *)
(* runs from its first statement to the first backend read                 *)
BeginStream(msg) ==
    /\ pc = "created"
    /\ msg = turn.msg
    /\ \E s \in {stream_begin(Here(FALSE), msg)} :
           /\ Commit(s)
           /\ turn' = [NoTurn EXCEPT !.mode = "stream", !.phase = "pull", !.msg = msg,
                                     !.h0 = conversation_history, !.m0 = Len(metrics),
                                     !.s0 = Len(spans),
                                     !.span = IF variant = "ollama" THEN Len(s.sp) ELSE 0,
                                     !.request = s.h]
    /\ pc' = "streaming"
    /\ outcome' = NoOutcome
    /\ UNCHANGED <<variant, flushed, use_streaming, turns, chunks>>

(* mutant: a chunk is accumulated and the next one read before any yield *)
StreamChunk_unyielded(content) ==
    /\ pc = "streaming"
    /\ turn.phase = "pull"
    /\ chunks < MaxChunks
    /\ chunks' = chunks + 1
    /\ turn' = [turn EXCEPT !.received = @ + 1,
                            !.full_response = Append(@, content)]
    /\ UNCHANGED <<variant, flushed, pc, conversation_history, use_streaming, metrics,
                   spans, outcome, turns>>

(* mutant: every chunk is counted in the token counter *)
StreamChunk_counted(content) ==
    /\ pc = "streaming"
    /\ turn.phase = "pull"
    /\ chunks < MaxChunks
    /\ chunks' = chunks + 1
    /\ metrics' = Append(metrics, Sample("llm.tokens.total", 1, "completion"))
    /\ turn' = [turn EXCEPT !.received = @ + 1,
                            !.full_response = Append(@, content),
                            !.yielded = Append(@, Str(<<content>>)),
                            !.phase = "yielded"]
    /\ UNCHANGED <<variant, flushed, pc, conversation_history, use_streaming, spans,
                   outcome, turns>>

(* mutant: the accumulator is yielded in place of the chunk *)
StreamChunk_accumulated(content) ==
    /\ pc = "streaming"
    /\ turn.phase = "pull"
    /\ chunks < MaxChunks
    /\ chunks' = chunks + 1
    /\ turn' = [turn EXCEPT !.received = @ + 1,
                            !.full_response = Append(@, content),
                            !.yielded = Append(@, Str(Append(turn.full_response, content))),
                            !.phase = "yielded"]
    /\ UNCHANGED <<variant, flushed, pc, conversation_history, use_streaming, metrics, spans,
                   outcome, turns>>

(* the backend delivers a chunk: it is accumulated and yielded *)
StreamChunk(content) ==
    /\ pc = "streaming"
    /\ turn.phase = "pull"
    /\ chunks < MaxChunks
    /\ chunks' = chunks + 1
    /\ turn' = [turn EXCEPT !.received = @ + 1,
                            !.full_response = Append(@, content),
                            !.yielded = Append(@, Str(<<content>>)),
                            !.phase = "yielded"]
    /\ UNCHANGED <<variant, flushed, pc, conversation_history, use_streaming, metrics, spans,
                   outcome, turns>>

(* the consumer prints the element and pulls the next one *)
ConsumerPulls ==
    /\ pc = "streaming"
    /\ turn.phase = "yielded"
    /\ turn' = [turn EXCEPT !.phase = "pull"]
    /\ UNCHANGED <<variant, flushed, pc, conversation_history, use_streaming, metrics, spans,
                   outcome, turns, chunks>>

(* the backend signals the end of the stream: the generator finishes *)
StreamEnds ==
    /\ pc = "streaming"
    /\ turn.phase = "pull"
    /\ \E s \in {stream_end(Here(FALSE))} : Commit(s)
    /\ turn' = [turn EXCEPT !.phase = "over", !.reply.kind = "returned"]
    /\ outcome' = [NoOutcome EXCEPT !.kind = "exhausted"]
    /\ pc' = "prompt"
    /\ UNCHANGED <<variant, flushed, use_streaming, turns, chunks>>

(* mutant: the except clause swallows the exception and yields nothing *)
StreamRaises_silent(be) ==
    /\ pc = "streaming"
    /\ turn.phase = "pull"
    /\ \E s \in {stream_fail(Here(FALSE), be)} : Commit(s)
    /\ turn' = [turn EXCEPT !.phase = "yielded_error",
                            !.reply = [kind |-> "raised", r |-> NoReply.r, be |-> be]]
    /\ UNCHANGED <<variant, flushed, pc, use_streaming, outcome, turns, chunks>>

(* the backend raises in the middle of the stream: the except clause       *)
(* yields the error text                                                   *)
StreamRaises(be) ==
    /\ pc = "streaming"
    /\ turn.phase = "pull"
    /\ \E s \in {stream_fail(Here(FALSE), be)} : Commit(s)
    /\ turn' = [turn EXCEPT !.phase = "yielded_error",
                            !.yielded = Append(@, ErrorText(be)),
                            !.reply = [kind |-> "raised", r |-> NoReply.r, be |-> be]]
    /\ UNCHANGED <<variant, flushed, pc, use_streaming, outcome, turns, chunks>>

(* mutant: after the error text the generator goes back to reading chunks *)
ConsumerPullsLast_resume ==
    /\ pc = "streaming"
    /\ turn.phase = "yielded_error"
    /\ turn' = [turn EXCEPT !.phase = "pull"]
    /\ UNCHANGED <<variant, flushed, pc, conversation_history, use_streaming, metrics, spans,
                   outcome, turns, chunks>>

(* the consumer prints the error text and pulls again: the generator       *)
(* finishes                                                                *)
ConsumerPullsLast ==
    /\ pc = "streaming"
    /\ turn.phase = "yielded_error"
    /\ turn' = [turn EXCEPT !.phase = "over"]
    /\ outcome' = [NoOutcome EXCEPT !.kind = "exhausted"]
    /\ pc' = "prompt"
    /\ UNCHANGED <<variant, flushed, conversation_history, use_streaming, metrics, spans, turns, chunks>>

(* Ctrl-C during a streamed turn.  While the generator waits for the       *)
(* backend the KeyboardInterrupt is raised inside it; while it is          *)
(* suspended at a yield the consumer is interrupted, main() unwinds, and   *)
(* the abandoned generator is closed (GeneratorExit at the yield).  No     *)
(* `except Exception` takes either; the program ends.                      *)
InterruptStream(recordsBase) ==
    /\ pc = "streaming"
    /\ \E e \in {IF turn.phase = "pull" THEN KeyboardInterrupt ELSE GeneratorExit} :
       \E s \in {IF turn.phase = "yielded_error" THEN Raise(Here(recordsBase), e)
                 ELSE stream_fail(Here(recordsBase), e)} :
           /\ Commit(s)
           /\ outcome' = [NoOutcome EXCEPT !.kind = "interrupted", !.exc = s.exc]
    /\ turn' = [turn EXCEPT !.phase = "abandoned"]
    /\ pc' = "exited"
    /\ flushed' = ExitFlush
    /\ UNCHANGED <<variant, use_streaming, turns, chunks>>

----------------------------------------------------------------------------
(* The commands of the interactive loop.  Reading a command forgets the    *)
(* turn before it.                                                         *)

(* mutant: the empty line is sent to the backend like a message *)
InputEmpty_asks ==
    /\ pc = "prompt"
    /\ InputOpen
    /\ variant \in Interactive
    /\ ~Streaming
    /\ \E s \in {chat_begin(Here(FALSE), <<>>)} :
           /\ Commit(s)
           /\ turn' = [NoTurn EXCEPT !.mode = "chat", !.phase = "await",
                                     !.h0 = conversation_history, !.m0 = Len(metrics),
                                     !.s0 = Len(spans), !.span = CallSpan(s),
                                     !.api = ApiSpan(s), !.request = Request(s, <<>>)]
    /\ pc' = "awaiting"
    /\ outcome' = NoOutcome
    /\ UNCHANGED <<variant, flushed, use_streaming, turns, chunks>>

(* an empty line: continue *)
InputEmpty ==
    /\ pc = "prompt"
    /\ InputOpen
    /\ variant \in Interactive
    /\ outcome' = NoOutcome
    /\ turn' = NoTurn
    /\ UNCHANGED <<variant, flushed, pc, conversation_history, use_streaming, metrics, spans, turns, chunks>>

(* 'quit' or 'exit': break *)
InputQuit ==
    /\ pc = "prompt"
    /\ InputOpen
    /\ variant \in Interactive
    /\ \E s \in {Leave(Here(FALSE))} : Commit(s)
    /\ pc' = "exited"
    /\ outcome' = NoOutcome
    /\ turn' = NoTurn
    /\ flushed' = ExitFlush
    /\ UNCHANGED <<variant, use_streaming, turns, chunks>>

(* mutant: clear also forgets the metrics recorded so far *)
InputClear_reset ==
    /\ pc = "prompt"
    /\ InputOpen
    /\ variant \in Interactive
    /\ conversation_history' = clear_history(conversation_history)
    /\ metrics' = <<>>
    /\ outcome' = [NoOutcome EXCEPT !.kind = "cleared"]
    /\ turn' = NoTurn
    /\ UNCHANGED <<variant, flushed, pc, use_streaming, spans, turns, chunks>>

(* 'clear': outcome.kind remembers that the last command was a clear *)
InputClear ==
    /\ pc = "prompt"
    /\ InputOpen
    /\ variant \in Interactive
    /\ conversation_history' = clear_history(conversation_history)
    /\ outcome' = [NoOutcome EXCEPT !.kind = "cleared"]
    /\ turn' = NoTurn
    /\ UNCHANGED <<variant, flushed, pc, use_streaming, metrics, spans, turns, chunks>>

(* 'history' (langfuse, opik): the history is printed *)
InputHistory ==
    /\ pc = "prompt"
    /\ InputOpen
    /\ variant \in {"langfuse", "opik"}
    /\ outcome' = NoOutcome
    /\ turn' = NoTurn
    /\ UNCHANGED <<variant, flushed, pc, conversation_history, use_streaming, metrics, spans, turns, chunks>>

(* 'stream' (langtrace, ollama): toggles the streaming mode *)
InputStream ==
    /\ pc = "prompt"
    /\ InputOpen
    /\ variant \in CanStream
    /\ use_streaming' = ~use_streaming
    /\ outcome' = NoOutcome
    /\ turn' = NoTurn
    /\ UNCHANGED <<variant, flushed, pc, conversation_history, metrics, spans, turns, chunks>>

(* Ctrl-C at the prompt: langfuse and opik break, the others die of it *)
InputInterrupt(recordsBase) ==
    /\ pc = "prompt"
    /\ variant \in Interactive
    /\ \E s \in {Leave(Here(recordsBase))} : Commit(s)
    /\ pc' = "exited"
    /\ outcome' = NoOutcome
    /\ turn' = NoTurn
    /\ flushed' = ExitFlush
    /\ UNCHANGED <<variant, use_streaming, turns, chunks>>

(* end of input at the prompt: input() raises EOFError.  langfuse and opik *)
(* print it (`except Exception`) and read again, with the same result;     *)
(* outcome.kind remembers that the input has ended.  langtrace and ollama  *)
(* die of it.                                                              *)
InputEOF ==
    /\ pc = "prompt"
    /\ variant \in Interactive
    /\ pc' = IF variant \in {"langfuse", "opik"} THEN "prompt" ELSE "exited"
    /\ outcome' = IF variant \in {"langfuse", "opik"}
                  THEN [NoOutcome EXCEPT !.kind = "eof"] ELSE NoOutcome
    /\ turn' = NoTurn
    /\ flushed' = IF variant \in {"langfuse", "opik"} THEN flushed ELSE ExitFlush
    /\ UNCHANGED <<variant, conversation_history, use_streaming, metrics, spans, turns, chunks>>

(* run_demo of the openai demo: the queries are used up *)
DemoEnds ==
    /\ pc = "prompt"
    /\ variant = "openai"
    /\ pc' = "exited"
    /\ outcome' = NoOutcome
    /\ turn' = NoTurn
    /\ flushed' = ExitFlush
    /\ UNCHANGED <<variant, conversation_history, use_streaming, metrics, spans, turns, chunks>>

Next ==
    \/ \E msg \in UserInputs : BeginTurn(msg)
    \/ \E r \in Responses, fault \in Telemetry : BackendReturns(r, fault)
    \/ \E be \in BackendErrors : BackendRaises(be)
    \/ \E recordsBase \in BOOLEAN : InterruptCall(recordsBase)
    \/ \E msg \in UserInputs : CreateStream(msg)
    \/ InterruptCreated
    \/ \E msg \in UserInputs : BeginStream(msg)
    \/ \E content \in Fragments : StreamChunk(content)
    \/ ConsumerPulls
    \/ StreamEnds
    \/ \E be \in BackendErrors : StreamRaises(be)
    \/ ConsumerPullsLast
    \/ \E recordsBase \in BOOLEAN : InterruptStream(recordsBase)
    \/ InputEmpty
    \/ InputQuit
    \/ InputClear
    \/ InputHistory
    \/ InputStream
    \/ \E recordsBase \in BOOLEAN : InputInterrupt(recordsBase)
    \/ InputEOF
    \/ DemoEnds

Spec == Init /\ [][Next]_vars

(* The steps the programs take by themselves: the loop reads its next      *)
(* command whenever it is at the prompt, the backend call returns or       *)
(* raises, the for statement pulls.  Ctrl-C is the user's and is promised  *)
(* by nothing.                                                             *)
ProgramStep ==
    \/ \E msg \in UserInputs : BeginTurn(msg)
    \/ \E r \in Responses, fault \in Telemetry : BackendReturns(r, fault)
    \/ \E be \in BackendErrors : BackendRaises(be)
    \/ \E msg \in UserInputs : CreateStream(msg)
    \/ \E msg \in UserInputs : BeginStream(msg)
    \/ \E content \in Fragments : StreamChunk(content)
    \/ ConsumerPulls
    \/ StreamEnds
    \/ \E be \in BackendErrors : StreamRaises(be)
    \/ ConsumerPullsLast
    \/ InputEmpty
    \/ InputQuit
    \/ InputClear
    \/ InputHistory
    \/ InputStream
    \/ InputEOF
    \/ DemoEnds

FairSpec == Spec /\ WF_vars(ProgramStep)

----------------------------------------------------------------------------
(* Vocabulary of the properties *)

(* a turn has just come back to the loop *)
TurnOver == pc = "prompt" /\ turn.phase = "over"
ChatOver == TurnOver /\ turn.mode = "chat"

(* the turn took its success path: chat returned and no except clause ran *)
Succeeded == outcome.kind = "return" /\ ~outcome.caught

(* the turn failed: chat raised, or an except clause turned the failure    *)
(* into the return value                                                   *)
Failed == outcome.kind = "raise" \/ outcome.caught

UserMessage == Message("user", Str(turn.msg))

(* the samples recorded, and the spans started, by the last turn *)
TurnSamples == SubSeq(metrics, turn.m0 + 1, Len(metrics))

CountOf(samples, name, label) ==
    Cardinality({i \in DOMAIN samples : samples[i].name = name /\ samples[i].label = label})

CountNamed(samples, name) ==
    Cardinality({i \in DOMAIN samples : samples[i].name = name})

RequestCounter == IF variant = "openai" THEN "llm_requests_total" ELSE "llm.requests.total"
TokenCounter == IF variant = "openai" THEN "llm_tokens_total" ELSE "llm.tokens.total"
LatencyHistogram ==
    IF variant = "openai" THEN "llm_request_duration" ELSE "llm.request.duration"
ErrorCounter == "llm.errors.total"

----------------------------------------------------------------------------
(* C1: a successful non-streamed turn that started from history H leaves   *)
(* the history H, then the user message, then one assistant message with   *)
(* the content the backend returned: two more entries, in that order.      *)
C1_SuccessfulTurnAppendsUserThenAssistant ==
    (ChatOver /\ Succeeded /\ variant \in HasHistory)
        => conversation_history =
              turn.h0 \o <<UserMessage, Message("assistant", turn.reply.r.content)>>

(* a successful turn that started from a history of an earlier turn *)
C1_Witness ==
    /\ ChatOver /\ Succeeded /\ variant = "langfuse"
    /\ Len(turn.h0) = 2
    /\ Len(conversation_history) = 4
    /\ turn.reply.r.content = Str(<<"hello">>)

(* C2: a failed turn (the backend call raises, in chat or in the middle of *)
(* a stream) leaves the history as it was before the turn: not even the    *)
(* user message of the failed turn is added.                               *)
C2_FailedTurnLeavesHistoryUnchanged ==
    (TurnOver /\ turn.reply.kind = "raised" /\ variant \in HasHistory)
        => conversation_history = turn.h0

(* C3: with no turn in flight, the request counter summed over             *)
(* status=success and status=error equals the number of turns: every       *)
(* completed turn adds exactly one increment, wherever an exception arises *)
(* inside it.                                                              *)
C3_OneRequestIncrementPerTurn ==
    (pc = "prompt" /\ variant \in HasMetrics)
        => CountOf(metrics, RequestCounter, "success")
           + CountOf(metrics, RequestCounter, "error") = turns

(* C4: a successful turn adds exactly one request-counter increment with   *)
(* status=success, of amount 1, and exactly one latency observation, and   *)
(* no status=error increment and no error-counter increment.               *)
C4_SuccessfulTurnMetrics ==
    (ChatOver /\ Succeeded /\ variant \in HasMetrics)
        => /\ CountOf(TurnSamples, RequestCounter, "success") = 1
           /\ CountNamed(TurnSamples, LatencyHistogram) = 1
           /\ CountNamed(TurnSamples, RequestCounter) = 1
           /\ CountNamed(TurnSamples, ErrorCounter) = 0
           /\ \A i \in DOMAIN TurnSamples :
                 TurnSamples[i].name = RequestCounter => TurnSamples[i].value = 1

(* a successful turn that follows a failed one, in each instrumented demo *)
C4_Witness ==
    /\ ChatOver /\ Succeeded /\ variant \in HasMetrics
    /\ turns = 2
    /\ CountOf(metrics, RequestCounter, "error") = 1
    /\ CountOf(metrics, RequestCounter, "success") = 1

(* C5: a failed turn adds exactly one request-counter increment with       *)
(* status=error and exactly one error-counter increment labelled with the  *)
(* type of the exception, and no status=success increment and no latency   *)
(* observation.                                                            *)
C5_FailedTurnMetrics ==
    (ChatOver /\ Failed /\ variant \in HasMetrics)
        => /\ CountOf(TurnSamples, RequestCounter, "error") = 1
           /\ CountOf(TurnSamples, ErrorCounter, outcome.failure.type) = 1
           /\ CountNamed(TurnSamples, ErrorCounter) = 1
           /\ CountOf(TurnSamples, RequestCounter, "success") = 0
           /\ CountNamed(TurnSamples, LatencyHistogram) = 0

(* C6: a successful turn of the langfuse and of the opik chatbot adds      *)
(* exactly three token-counter increments, one for each of type=prompt,    *)
(* type=completion and type=total; the amounts are the counts the backend  *)
(* reported, zero for a count it did not report, and total is prompt plus  *)
(* completion.                                                             *)
ReportedOrZero(count) == IF count = Absent THEN 0 ELSE count

C6_ThreeTokenIncrements ==
    (ChatOver /\ Succeeded /\ variant \in {"langfuse", "opik"})
        => LET prompt == ReportedOrZero(turn.reply.r.prompt_eval_count)
               completion == ReportedOrZero(turn.reply.r.eval_count)
               Amount(type) ==
                   CASE type = "prompt" -> prompt
                     [] type = "completion" -> completion
                     [] type = "total" -> prompt + completion
           IN  /\ CountNamed(TurnSamples, TokenCounter) = 3
               /\ \A type \in {"prompt", "completion", "total"} :
                     /\ CountOf(TurnSamples, TokenCounter, type) = 1
                     /\ \A i \in DOMAIN TurnSamples :
                           (TurnSamples[i].name = TokenCounter
                            /\ TurnSamples[i].label = type)
                               => TurnSamples[i].value = Amount(type)

(* the first turn reports 3 prompt and 1 completion tokens: total is 4 *)
C6_Witness ==
    /\ ChatOver /\ Succeeded /\ variant \in {"langfuse", "opik"}
    /\ turns = 1
    /\ turn.reply.r.prompt_eval_count = 3 /\ turn.reply.r.eval_count = 1
    /\ \E i \in DOMAIN metrics :
          metrics[i] = Sample(TokenCounter, 4, "total")

(* C7: no span is ended twice; whenever no turn is in flight every span of *)
(* a call (llm_chat_request, ollama_api, llm.chat, ollama.chat,            *)
(* ollama.chat.stream) has been ended exactly once, whether the call       *)
(* returned, raised or its stream was abandoned; and when the program has  *)
(* ended every span, the session span included, has been ended exactly     *)
(* once.                                                                   *)
C7_EverySpanClosedExactlyOnce ==
    /\ \A i \in DOMAIN spans : spans[i].ended <= 1
    /\ pc \in {"prompt", "exited"}
           => \A i \in DOMAIN spans :
                 spans[i].name # "chatbot_session" => spans[i].ended = 1
    /\ pc = "exited" => \A i \in DOMAIN spans : spans[i].ended = 1

(* a streamed turn is abandoned at a yield: its span has been ended *)
C7_Witness ==
    /\ pc = "exited" /\ variant = "ollama"
    /\ turn.phase = "abandoned" /\ outcome.exc = GeneratorExit
    /\ turn.span \in DOMAIN spans
    /\ spans[turn.span].name = "ollama.chat.stream"
    /\ spans[turn.span].ended = 1

(* C8: the call span of a successful turn is ended with status "ok", the   *)
(* call span of a failed turn is ended with status "error" and carries the *)
(* exception; no ended call span has status "unset".                       *)
C8_CallSpanStatus ==
    (ChatOver /\ variant \in {"langfuse", "opik"})
        => /\ spans[turn.span].ended = 1
           /\ Succeeded => spans[turn.span].status = "ok"
           /\ Failed => /\ spans[turn.span].status = "error"
                        /\ Len(spans[turn.span].exceptions) > 0
           /\ spans[turn.span].status # "unset"

(* C9: when the backend call fails, the non-streamed call raises the       *)
(* error of the backend to its caller; it does not return a value.         *)
C9_BackendFailurePropagates ==
    (ChatOver /\ turn.reply.kind = "raised")
        => /\ outcome.kind = "raise"
           /\ outcome.exc = turn.reply.be

(* C10: when the backend call succeeds with a well-formed reply and a      *)
(* telemetry statement of the turn raises, the call still returns the      *)
(* content of the backend, no error is counted and the caller sees no      *)
(* exception.                                                              *)
C10_TelemetryFailureSwallowed ==
    (ChatOver /\ outcome.faulted /\ turn.reply.kind = "returned"
       /\ turn.reply.r.shape = "ok" /\ variant \in HasMetrics)
        => /\ outcome.kind = "return"
           /\ outcome.value.content = turn.reply.r.content
           /\ CountOf(TurnSamples, RequestCounter, "error") = 0
           /\ CountNamed(TurnSamples, ErrorCounter) = 0

(* C11: while the backend works on the request of a turn, streamed or not, *)
(* the history already ends with the user message of the turn, and the     *)
(* messages the backend was given are the whole history: the history       *)
(* before the turn, in its order, followed by the user message.            *)
InFlight == pc \in {"awaiting", "streaming"}

C11_UserMessageAppendedBeforeBackend ==
    (InFlight /\ variant \in HasHistory)
        => /\ turn.request = turn.h0 \o <<UserMessage>>
           /\ Len(conversation_history) >= Len(turn.request)
           /\ SubSeq(conversation_history, 1, Len(turn.request)) = turn.request

(* the backend is working on the second turn of a langfuse session *)
C11_Witness ==
    /\ pc = "awaiting" /\ variant = "langfuse"
    /\ Len(turn.h0) = 2
    /\ Len(turn.request) = 3
    /\ turn.request[3] = Message("user", Str(turn.msg))

(* C12: right after the clear command the history is the empty sequence,   *)
(* whatever turns came before it, and the turn that follows the clear      *)
(* (any turn that starts on the empty history) hands the backend exactly   *)
(* one message, its user message.                                          *)
C12_ClearEmptiesHistory ==
    /\ [](outcome.kind = "cleared" => conversation_history = <<>>)
    /\ [][(variant \in HasHistory /\ conversation_history = <<>>
             /\ turn.mode = "none" /\ turn'.mode # "none")
            => turn'.request = <<Message("user", Str(turn'.msg))>>]_vars

(* a second turn that starts from an empty history: a clear came between *)
C12_Witness ==
    /\ InFlight /\ variant \in {"langfuse", "langtrace"}
    /\ turns = 2
    /\ turn.h0 = <<>>
    /\ turn.request = <<UserMessage>>

(* C13: when the backend raises in the middle of a stream, after any       *)
(* number of chunks, the history keeps what it held before the turn and    *)
(* gains no assistant message: neither the content accumulated so far nor  *)
(* the error text is committed.                                            *)
StreamFailed == turn.mode = "stream" /\ turn.reply.kind = "raised"

C13_FailedStreamCommitsNoAssistant ==
    (StreamFailed /\ turn.phase \in {"yielded_error", "over", "abandoned"})
        => /\ Len(conversation_history) >= Len(turn.h0)
           /\ SubSeq(conversation_history, 1, Len(turn.h0)) = turn.h0
           /\ \A i \in DOMAIN conversation_history :
                 i > Len(turn.h0) => conversation_history[i].role # "assistant"

(* the backend raised after one chunk had been forwarded *)
C13_Witness ==
    /\ TurnOver /\ StreamFailed
    /\ turn.received = 1
    /\ Len(turn.full_response) = 1

(* C14: when the consumer of a stream is interrupted after at least one    *)
(* chunk and before the end of the stream or an error, and the generator   *)
(* is closed at its yield, the span of the stream has been ended exactly   *)
(* once and no span is left open.                                          *)
Cancelled ==
    /\ pc = "exited"
    /\ turn.mode = "stream" /\ turn.phase = "abandoned"
    /\ turn.reply.kind = "none"
    /\ turn.received >= 1
    /\ outcome.exc = GeneratorExit

C14_CancelledStreamClosesSpan ==
    (Cancelled /\ variant = "ollama")
        => /\ turn.span \in DOMAIN spans
           /\ spans[turn.span].name = "ollama.chat.stream"
           /\ spans[turn.span].ended = 1
           /\ \A i \in DOMAIN spans : spans[i].ended = 1

(* the second streamed turn of an ollama session is abandoned *)
C14_Witness ==
    /\ Cancelled /\ variant = "ollama"
    /\ turns = 2
    /\ Len(spans) >= 2
    /\ spans[turn.span].ended = 1

(* C15: the span of a stream cancelled by its consumer ends with a status  *)
(* of its own, which is neither the status of a stream that completed nor  *)
(* the status of a stream that failed.                                     *)
C15_CancelledStatusDistinguished ==
    (Cancelled /\ variant = "ollama")
        => spans[turn.span].status \notin {"unset", "ok", "error"}

(* C16: when a stream ends normally, the fragments it yielded, joined in   *)
(* order, are the content the non-streamed call returns for the same user  *)
(* message, the same history and a backend reply that carries the whole    *)
(* streamed text.                                                          *)
RECURSIVE Concat(_)
Concat(fragments) ==
    IF fragments = <<>> THEN <<>>
    ELSE Head(fragments).v \o Concat(Tail(fragments))

NonStreamed(h, msg, r) ==
    IF variant = "langtrace"
    THEN langtrace_chat_end(langtrace_chat_begin(Local(h, <<>>, <<>>, FALSE), msg), r, NoExc)
    ELSE LET b == ollama_chat_begin(Local(h, <<>>, <<>>, FALSE), msg)
         IN  ollama_chat_end(b, Len(b.sp), r, NoExc)

StreamDone == turn.mode = "stream" /\ turn.reply.kind = "returned"

C16_StreamedContentEqualsNonStreamed ==
    (TurnOver /\ StreamDone /\ variant \in CanStream)
        => LET r == Response("ok", Str(turn.full_response), Absent, Absent)
               call == NonStreamed(turn.h0, turn.msg, r)
           IN  /\ Running(call)
               /\ call.ret.content = Str(Concat(turn.yielded))

(* a stream of two different chunks has ended *)
C16_Witness ==
    /\ TurnOver /\ StreamDone /\ variant = "langtrace"
    /\ Len(turn.yielded) = 2
    /\ turn.yielded[1] # turn.yielded[2]
    /\ Concat(turn.yielded) = turn.full_response

(* C17: a streamed turn is STREAMING from the moment its request has been  *)
(* issued (INIT is the start of the generator up to that request) and      *)
(* moves from there to DONE, to ERROR, or is cancelled; once it is DONE or *)
(* ERROR it stays there, it yields nothing more, and the history, the      *)
(* spans and the metrics are not touched again by that turn.               *)
StreamState ==
    CASE turn.mode # "stream" -> "NONE"
      [] turn.mode = "stream" /\ turn.reply.kind = "returned" -> "DONE"
      [] turn.mode = "stream" /\ turn.reply.kind = "raised" -> "ERROR"
      [] turn.mode = "stream" /\ turn.reply.kind = "none" /\ turn.phase = "abandoned"
            -> "CANCELLED"
      [] OTHER -> "STREAMING"

C17_StreamStateMachine ==
    [][/\ (StreamState = "NONE" /\ turn'.mode = "stream")
            => (StreamState' = "STREAMING" /\ turn'.yielded = <<>>)
       /\ (turn.mode = "stream" /\ turn'.mode = "stream" /\ turns' = turns)
            => /\ StreamState = "STREAMING"
                     => StreamState' \in {"STREAMING", "DONE", "ERROR", "CANCELLED"}
               /\ StreamState \in {"DONE", "ERROR"}
                     => /\ StreamState' = StreamState
                        /\ turn'.yielded = turn.yielded
                        /\ turn'.full_response = turn.full_response
                        /\ UNCHANGED <<conversation_history, metrics, spans>>
      ]_vars

(* the consumer has pulled once more after the error element *)
C17_Witness ==
    /\ TurnOver /\ StreamState = "ERROR" /\ variant = "ollama"
    /\ turn.received = 1
    /\ Len(turn.yielded) = 2
    /\ spans[turn.span].ended = 1

(* C18: a streamed turn that reaches the end of the stream records the     *)
(* request counter with status=success and the latency histogram exactly   *)
(* once each, and its span ends with status "ok".                          *)
C18_StreamDoneMetrics ==
    (TurnOver /\ StreamDone /\ variant \in CanStream)
        => /\ CountOf(TurnSamples, RequestCounter, "success") = 1
           /\ CountNamed(TurnSamples, LatencyHistogram) = 1
           /\ variant = "ollama" => spans[turn.span].status = "ok"

(* C19: a streamed turn on which the backend raises records the error      *)
(* counter and the request counter with status=error exactly once each,    *)
(* and its span carries the exception once and ends with status "error".   *)
C19_StreamErrorMetrics ==
    (TurnOver /\ StreamFailed /\ variant \in CanStream)
        => /\ CountNamed(TurnSamples, ErrorCounter) = 1
           /\ CountOf(TurnSamples, RequestCounter, "error") = 1
           /\ variant = "ollama"
                 => /\ spans[turn.span].status = "error"
                    /\ Len(spans[turn.span].exceptions) = 1

(* C20: when the backend raises in the middle of a stream, what the        *)
(* consumer has been handed is every chunk the backend delivered, in       *)
(* order, followed by exactly one element, the text of the error, and      *)
(* nothing after it; a stream that ended normally carries the chunks only. *)
Forwarded == [i \in 1..turn.received |-> Str(<<turn.full_response[i]>>)]

C21_NoPerChunkTelemetry ==
    (turn.mode = "stream")
        => /\ Len(metrics) = turn.m0
           /\ Len(spans) = turn.s0 + (IF variant = "ollama" THEN 1 ELSE 0)
           /\ (variant = "ollama" /\ StreamState = "STREAMING")
                 => /\ turn.span = turn.s0 + 1
                    /\ spans[turn.span].ended = 0

(* two chunks have been forwarded and the one span is still open *)
C21_Witness ==
    /\ variant = "ollama" /\ StreamState = "STREAMING"
    /\ turn.received = 2 /\ turn.phase = "yielded"
    /\ Len(spans) = turn.s0 + 1
    /\ spans[turn.span].ended = 0

(* C22: a streamed turn that fails or is cancelled in the middle of its    *)
(* sequence leaves the history as it was before the turn.                  *)
C22_FailedStreamLeavesHistoryUnchanged ==
    (turn.mode = "stream" /\ turn.phase \in {"over", "abandoned"}
       /\ StreamState \in {"ERROR", "CANCELLED"})
        => conversation_history = turn.h0

(* C23: when an interactive program has ended, by whatever path, its code  *)
(* has called the flush of its exporter.                                   *)
C23_FlushBeforeExit ==
    (pc = "exited" /\ variant \in Interactive) => flushed

(* C24: in the langfuse and the opik program a turn whose backend call     *)
(* raised leaves the loop at its prompt; a later turn whose backend call   *)
(* succeeds is a normal successful turn (content returned, user and        *)
(* assistant message appended, one success increment); and what was        *)
(* recorded stays recorded: samples are only added, and a span that has    *)
(* been ended is not changed.                                              *)
Earlier == SubSeq(metrics, 1, turn.m0)

C24_FailedTurnIsNotFatal ==
    /\ []((turn.mode = "chat" /\ turn.phase = "over" /\ turn.reply.kind = "raised"
             /\ variant \in {"langfuse", "opik"})
            => (pc = "prompt" /\ outcome.kind = "raise"))
    /\ []((ChatOver /\ Succeeded /\ variant \in {"langfuse", "opik"}
             /\ CountOf(Earlier, RequestCounter, "error") >= 1)
            => /\ outcome.value.content = turn.reply.r.content
               /\ conversation_history
                    = turn.h0 \o <<UserMessage, Message("assistant", turn.reply.r.content)>>
               /\ CountOf(TurnSamples, RequestCounter, "success") = 1
               /\ CountOf(TurnSamples, RequestCounter, "error") = 0)
    /\ [][/\ Len(metrics') >= Len(metrics)
          /\ SubSeq(metrics', 1, Len(metrics)) = metrics
          /\ Len(spans') >= Len(spans)
          /\ \A i \in DOMAIN spans : spans[i].ended = 1 => spans'[i] = spans[i]
         ]_vars

(* a successful second turn after a failed first one, whose span and       *)
(* error samples are still there                                           *)
C24_Witness ==
    /\ ChatOver /\ Succeeded /\ variant = "langfuse" /\ turns = 2
    /\ CountOf(Earlier, RequestCounter, "error") = 1
    /\ CountNamed(Earlier, ErrorCounter) = 1
    /\ spans[1].ended = 1 /\ spans[1].status = "error"
    /\ Len(conversation_history) = 3

(* C25: from the moment the backend is invoked until the turn is over, the *)
(* span of the call carries the model identifier, the input length and the *)
(* session id: in chat of the langfuse and the opik program and in         *)
(* chat_stream of the ollama program.                                      *)
PreCallAttributes == {"llm.model", "llm.user_message_length", "session.id"}

C25_PreCallAttributes ==
    (turn.mode # "none"
       /\ (variant \in {"langfuse", "opik"} \/ (variant = "ollama" /\ turn.mode = "stream")))
        => /\ turn.span \in DOMAIN spans
           /\ PreCallAttributes \subseteq DOMAIN spans[turn.span].attrs

(* C26: the clear command leaves every recorded metric sample and every    *)
(* span as it was, and changes nothing else of the session but the         *)
(* history.                                                                *)
C26_ClearLeavesTelemetry ==
    [][outcome'.kind = "cleared"
         => UNCHANGED <<metrics, spans, use_streaming, turns, pc, flushed>>]_vars

(* a clear after a failed and recorded turn of the opik program *)
C26_Witness ==
    /\ outcome.kind = "cleared" /\ variant = "opik"
    /\ conversation_history = <<>>
    /\ CountOf(metrics, RequestCounter, "error") = 1
    /\ Len(spans) = 3
    /\ spans[2].ended = 1 /\ spans[2].status = "error"

(* C27: nothing is ever set on a span that has been ended (no attribute,   *)
(* no exception, no status): an ended span stays as it is, and the         *)
(* attributes of a span are only added to.                                 *)
C27_SpanImmutableAfterClose ==
    /\ [](\A i \in DOMAIN spans : spans[i].late = 0)
    /\ [][\A i \in DOMAIN spans :
             /\ i \in DOMAIN spans'
             /\ spans[i].ended >= 1 => spans'[i] = spans[i]
             /\ DOMAIN spans[i].attrs \subseteq DOMAIN spans'[i].attrs
         ]_vars

(* a stream of the ollama program has ended: its span got its last         *)
(* attribute and was then ended                                            *)
C27_Witness ==
    /\ TurnOver /\ StreamDone /\ variant = "ollama"
    /\ spans[turn.span].ended = 1
    /\ spans[turn.span].late = 0
    /\ "llm.response_length" \in DOMAIN spans[turn.span].attrs

(* C28: while a stream is going on the history ends with the user message  *)
(* of the turn; when the stream has reached its end exactly one assistant  *)
(* message has been appended after it, whose content is the fragments the  *)
(* consumer was handed, joined in order (the empty text for no fragment).  *)
C28_StreamDoneAppendsConcatenation ==
    /\ (StreamState = "STREAMING" /\ variant \in CanStream)
           => conversation_history = turn.h0 \o <<UserMessage>>
    /\ (StreamState = "DONE" /\ variant \in CanStream)
           => conversation_history
                = turn.h0 \o <<UserMessage,
                               Message("assistant", Str(Concat(turn.yielded)))>>

(* a stream of two fragments has ended in the second turn of a session *)
C28_Witness ==
    /\ TurnOver /\ StreamState = "DONE" /\ variant = "ollama"
    /\ Len(turn.yielded) = 2
    /\ conversation_history[Len(conversation_history)].content = Str(turn.full_response)

(* C29: a chunk is read from the backend only when every chunk before it   *)
(* has been yielded and the consumer has pulled again; it is accumulated   *)
(* and yielded at once, so that the chunks received never exceed the       *)
(* fragments yielded by more than one and the fragments are the chunks in  *)
(* the order received.                                                     *)
C29_ChunkYieldedBeforeNextRead ==
    /\ []((turn.mode = "stream" /\ StreamState \in {"STREAMING", "DONE", "CANCELLED"})
            => /\ turn.received = Len(turn.full_response)
               /\ turn.received - Len(turn.yielded) \in {0, 1}
               /\ turn.phase \in {"yielded", "over"} => turn.yielded = Forwarded
               /\ \A i \in DOMAIN turn.yielded :
                     turn.yielded[i] = Str(<<turn.full_response[i]>>))
    /\ [][(turn.mode = "stream" /\ turn'.mode = "stream" /\ turns' = turns
             /\ turn'.received # turn.received)
            => /\ turn.phase = "pull"
               /\ Len(turn.yielded) = turn.received
               /\ turn'.received = turn.received + 1
               /\ Len(turn'.yielded) = turn'.received
         ]_vars

(* the second chunk has been read and yielded, after the first *)
C29_Witness ==
    /\ pc = "streaming" /\ turn.phase = "yielded"
    /\ turn.received = 2
    /\ turn.yielded = <<Str(<<"a">>), Str(<<"b">>)>>

(* C30: a turn or a clear is started only from the prompt, when the turn   *)
(* before it is over (returned, raised, or its stream consumed to the      *)
(* end); the spans that are open, apart from the session span, are those   *)
(* of the one turn in flight.                                              *)
OpenSpans == {i \in DOMAIN spans : spans[i].ended = 0 /\ spans[i].name # "chatbot_session"}

C30_OneTurnInFlight ==
    /\ [](/\ InFlight <=> turn.phase \in {"await", "pull", "yielded", "yielded_error"}
          /\ \A i \in OpenSpans : InFlight /\ i > turn.s0
          /\ Cardinality(OpenSpans) <= 2)
    /\ [][(turns' = turns + 1 \/ outcome'.kind = "cleared")
            => (pc = "prompt" /\ turn.phase \in {"none", "over"})]_vars

(* the backend works on the second turn; the spans of the first are ended *)
C30_Witness ==
    /\ pc = "awaiting" /\ variant = "langfuse" /\ turns = 2
    /\ Len(spans) = 4
    /\ OpenSpans = {3, 4}

----------------------------------------------------------------------------
IsPrefix(a, b) == Len(a) <= Len(b) /\ SubSeq(b, 1, Len(a)) = a

(* C31: the history is append-only between clears: every step that is not  *)
(* a clear leaves the history it found as a prefix of the history it       *)
(* leaves (no entry removed, reordered or rewritten), so every earlier     *)
(* value is a prefix of every later one; the history gets shorter only by  *)
(* the clear command, and that step leaves it empty.                       *)
C31_AppendOnlyBetweenClears ==
    [][/\ outcome'.kind # "cleared"
            => IsPrefix(conversation_history, conversation_history')
       /\ Len(conversation_history') < Len(conversation_history)
            => outcome'.kind = "cleared" /\ conversation_history' = <<>>]_vars

(* two turns without a clear, the second one failed: the history before    *)
(* the second turn is a proper prefix of the history after it              *)
C31_Witness ==
    /\ ChatOver /\ variant = "langtrace"
    /\ turns = 2 /\ Failed
    /\ Len(turn.h0) = 2
    /\ IsPrefix(turn.h0, conversation_history)
    /\ Len(conversation_history) = 3

----------------------------------------------------------------------------
----------------------------------------------------------------------------
Alternates(h) ==
    /\ Len(h) % 2 = 0
    /\ \A i \in DOMAIN h : h[i].role = IF i % 2 = 1 THEN "user" ELSE "assistant"

(* C33: whenever the loop waits for a command (no turn in flight), after   *)
(* any sequence of successful, failed and streamed turns and clears, the   *)
(* history has even length and alternates user, assistant, user, ...,      *)
(* starting with a user message.                                           *)
C33_HistoryAlternates ==
    (variant \in HasHistory /\ pc = "prompt") => Alternates(conversation_history)

----------------------------------------------------------------------------
(* C34: a failed turn of the langfuse or opik program records no           *)
(* increment of the token counter of any type (prompt, completion,         *)
(* total), also when the backend returned a response that carries token    *)
(* counts and has no message content, so that the turn fails after the     *)
(* response was received.                                                  *)
C34_FailedTurnRecordsNoTokens ==
    (ChatOver /\ variant \in {"langfuse", "opik"} /\ Failed)
        => CountNamed(TurnSamples, TokenCounter) = 0

----------------------------------------------------------------------------
(* the backend calls made so far by the langfuse and opik programs: every  *)
(* call of _call_ollama starts one span "ollama_api"                       *)
ApiCalls == {i \in DOMAIN spans : spans[i].name = "ollama_api"}

(* C35: every turn hands the backend one request, once, also when the      *)
(* call fails (no retry): a request goes out only at the start of a turn,  *)
(* it is not replaced while the turn is in flight, and in the langfuse and *)
(* opik programs the calls made are as many as the turns started.  The     *)
(* commands that are not turns (empty input, clear, history, stream        *)
(* toggle, quit/exit) and the ends of the program hand the backend         *)
(* nothing and record no metric.                                           *)
C35_OneBackendCallPerTurn ==
    /\ [](variant \in {"langfuse", "opik"} => Cardinality(ApiCalls) = turns)
    /\ [][/\ (~InFlight /\ InFlight')
               => /\ turns' = turns + 1 \/ (pc = "created" /\ turns' = turns)
                  /\ turn'.request # <<>>
          /\ (InFlight /\ InFlight')
               => (turn'.request = turn.request /\ turns' = turns)
          /\ (InFlight /\ ~InFlight')
               => (pc' \in {"prompt", "exited"} /\ turns' = turns)
          /\ (pc = "prompt" /\ turn' = NoTurn)
               => (~InFlight' /\ UNCHANGED <<metrics, turns, chunks>>)
         ]_vars

(* two turns of the langfuse program, both failed: two calls, both ended *)
C35_Witness ==
    /\ ChatOver /\ variant = "langfuse"
    /\ turns = 2 /\ Failed
    /\ turn.reply.kind = "raised"
    /\ CountOf(metrics, RequestCounter, "error") = 2
    /\ Cardinality(ApiCalls) = 2
    /\ \A i \in ApiCalls : spans[i].ended = 1

----------------------------------------------------------------------------
(* C36: calling chat_stream has no effect by itself: the call leaves the   *)
(* history, the spans and the metrics as they are and hands the backend    *)
(* nothing; the user message is appended, the span opened and the backend  *)
(* asked by the first pull, and a stream that is created and never pulled  *)
(* leaves all of them untouched.                                           *)
C36_StreamCreationIsLazy ==
    /\ [](pc = "created"
            => /\ conversation_history = turn.h0
               /\ turn.request = <<>>
               /\ OpenSpans = {})
    /\ [][/\ (pc' = "created" \/ (pc = "created" /\ pc' = "exited"))
               => UNCHANGED <<conversation_history, spans, metrics, chunks>>
          /\ (pc = "created" /\ pc' = "streaming")
               => /\ conversation_history' = Append(conversation_history, UserMessage')
                  /\ turn'.request = conversation_history'
                  /\ variant = "ollama" => Len(spans') = Len(spans) + 1
         ]_vars

(* a second stream is created after a streamed turn and dropped unpulled:  *)
(* the history still ends with the assistant message of the first          *)
C36_Witness ==
    /\ pc = "exited" /\ variant = "ollama"
    /\ turns = 2 /\ turn.mode = "none" /\ turn.msg # <<>>
    /\ outcome.kind = "interrupted"
    /\ Len(conversation_history) = 2
    /\ conversation_history = turn.h0
    /\ Len(spans) = 1 /\ spans[1].ended = 1

----------------------------------------------------------------------------
(* C37: once the input of the langfuse or opik demo has ended (input()     *)
(* raises EOFError and will raise it on every further read), the           *)
(* interactive loop eventually leaves: it does not repeat the failed read  *)
(* forever.                                                                *)
C37_LoopEndsAtEndOfInput ==
    (variant \in {"langfuse", "opik"} /\ outcome.kind = "eof") ~> (pc = "exited")

====
